---- MODULE Spec2Model ----
(***************************************************************************)
(* Model of src/main.py: the teletext page pipeline                        *)
(* (download_teletext_images_and_create_pdf), the mail notifier            *)
(* (send_pdf_via_email), main and the script entry point.                  *)
(*                                                                         *)
(* A run is sequential.  pc is the position of the single thread of        *)
(* control; every external effect (HTTP request, file written, SMTP step)  *)
(* is appended to the ghost trace `events`.                                *)
(***************************************************************************)
EXTENDS Integers, Sequences, FiniteSets, TLC

VARIABLES
    entry,            \* how the run is entered: "script", "main" or "download"
    sender_email,     \* SENDER_EMAIL / argument of main
    sender_password,  \* SENDER_PASSWORD / argument of main
    recipient_email,  \* RECIPIENT_EMAIL / argument of main
    start_page,       \* argument of download_teletext_images_and_create_pdf
    end_page,         \* argument of download_teletext_images_and_create_pdf
    pc,               \* position of the thread of control
    error,            \* the exception that ended the run, or "none"
    page,             \* loop variable of line 39
    response,         \* result of requests.get (line 41)
    img,              \* the working image of lines 44-52
    gray,             \* ghost: img as it was after convert("L")
    saved_images,     \* the list of line 37
    imageFiles,       \* page image files on disk (possibly partial)
    pdfFile,          \* the document file on disk
    output_path,      \* what the pipeline returned
    msg,              \* the EmailMessage built by send_pdf_via_email
    sent,             \* messages handed to smtp.send_message that went out
    events,           \* ghost: trace of external effects
    fetchLog          \* ghost: what each request returned

vars == <<entry, sender_email, sender_password, recipient_email, start_page,
          end_page, pc, error, page, response, img, gray, saved_images,
          imageFiles, pdfFile, output_path, msg, sent, events, fetchLog>>

---------------------------------------------------------------------------
(* Bounds of the model *)

\* pages a direct call of the pipeline may span
MaxSpan == 3
\* number of pages in the default range of main (stands for 170 - 100)
DefaultSpan == 3
\* largest number of pixels of a fetched image
ImgLen == 2

---------------------------------------------------------------------------
(* Program constants *)

DefaultStartPage == 100
DefaultEndPage == DefaultStartPage + DefaultSpan
threshold == 128
HTTP_OK == 200
\* non-success status codes a request may return
FailureStatuses == {404, 500}

\* os.environ.get returns None for an unset variable
NONE == "<None>"

\* Python truthiness of a str-or-None value (lines 108, 135)
Truthy(v) == v # NONE /\ v # ""

\* the path None / a real path, as a tuple of path components
NoPath == <<>>
\* output_path before main's assignment of line 127
Unbound == <<"<unbound>">>
\* Python truthiness of output_path (line 128)
TruthyPath(p) == p # NoPath

folder_name == "data/ts_teletext"
pdf_filename == "Teletext date.pdf"
\* os.path.join(folder_name, pdf_filename), line 81
pdf_path == <<folder_name, pdf_filename>>
\* os.path.join(folder_name_images, f"teletext_{page}.png"), line 72
ImgPath(p) == <<folder_name, "images", p>>
PageOf(path) == path[3]
\* os.path.basename, line 119
Basename(path) == path[Len(path)]

NoPdf == [path |-> NoPath, pages |-> <<>>]
NoMsg == [from |-> NONE, to |-> NONE, filename |-> "", data |-> <<>>]
NoResponse == [status_code |-> 0, ok |-> FALSE, pixels |-> <<>>]

---------------------------------------------------------------------------
(* Images *)

Black == <<0, 0, 0>>
Blue  == <<0, 0, 255>>
White == <<255, 255, 255>>
Palette == {Black, Blue, White}

\* decoded images of 1..ImgLen pixels
Images == UNION {[1..n -> Palette] : n \in 1..ImgLen}

\* one pixel of Image.convert("L"): ITU-R 601-2 luma, fixed point
Luma(c) == (c[1] * 19595 + c[2] * 38470 + c[3] * 7471 + 32768) \div 65536
ConvertL(pixels) == [i \in 1..Len(pixels) |-> Luma(pixels[i])]

\* variant: the threshold itself becomes white
Binarize_Inclusive(p) == IF p >= threshold THEN 255 ELSE 0

\* the lambda of line 49
Binarize(p) == IF p > threshold THEN 255 ELSE 0
\* Image.point, line 49
PointImg(im) == [i \in 1..Len(im) |-> Binarize(im[i])]
\* one pixel of ImageOps.invert on an "L" image, line 51
Invert(p) == 255 - p
InvertImg(im) == [i \in 1..Len(im) |-> Invert(im[i])]

\* all(pixel == first_pixel for pixel in pixels), lines 53-54
IsUniform(pixels) == \A i \in 1..Len(pixels) : pixels[i] = pixels[1]

\* variant: the path is put at the front of the list
AppendSaved_Prepend(s, path) == <<path>> \o s

\* saved_images.append(img_path), line 74
AppendSaved(s, path) == Append(s, path)

\* variant: a single saved page does not count
HasSaved_MoreThanOne(s) == Len(s) > 1

\* truthiness of the list, line 82
HasSaved(s) == s # <<>>

---------------------------------------------------------------------------
(* Ghost trace *)

Ev(kind, p) == [ev |-> kind, page |-> p]
Log(kind, p) == events' = Append(events, Ev(kind, p))

Positions(kind) == {i \in 1..Len(events) : events[i].ev = kind}
Count(kind) == Cardinality(Positions(kind))

RECURSIVE HttpPagesFrom(_)
\* the page numbers requested, in request order
HttpPagesFrom(i) ==
    IF i > Len(events) THEN <<>>
    ELSE IF events[i].ev = "http"
         THEN <<events[i].page>> \o HttpPagesFrom(i + 1)
         ELSE HttpPagesFrom(i + 1)
HttpPages == HttpPagesFrom(1)

\* <<a, a+1, ..., b-1>>
Range(a, b) == [i \in 1..(IF b > a THEN b - a ELSE 0) |-> a + i - 1]

Raise(e) == pc' = "raised" /\ error' = e

---------------------------------------------------------------------------
(* Initial states *)

SenderEmails == {NONE, "", "sender@seznam.cz"}
SenderPasswords == {"", "secret"}
Recipients == {NONE, "reader@example.org"}

Init ==
    /\ entry \in {"script", "main", "download"}
    /\ IF entry = "download"
       THEN /\ start_page \in DefaultStartPage..(DefaultStartPage + MaxSpan)
            /\ end_page \in DefaultStartPage..(DefaultStartPage + MaxSpan)
            /\ sender_email = NONE
            /\ sender_password = ""
            /\ recipient_email = NONE
       ELSE /\ start_page = DefaultStartPage
            /\ end_page = DefaultEndPage
            /\ sender_email \in SenderEmails
            /\ sender_password \in SenderPasswords
            /\ recipient_email \in Recipients
    /\ pc = "start"
    /\ error = "none"
    /\ page = start_page
    /\ response = NoResponse
    /\ img = <<>>
    /\ gray = <<>>
    /\ saved_images = <<>>
    /\ imageFiles = {}
    /\ pdfFile = NoPdf
    /\ output_path = Unbound
    /\ msg = NoMsg
    /\ sent = <<>>
    /\ events = <<>>
    /\ fetchLog = <<>>

---------------------------------------------------------------------------
(* Actions *)

cfg == <<entry, sender_email, sender_password, recipient_email,
         start_page, end_page>>

\* variant: the entry point calls main without checking the environment
ScriptEntry_NoCheck ==
    /\ pc = "start"
    /\ entry = "script"
    /\ pc' = "main"
    /\ UNCHANGED <<cfg, error, page, response, img, gray, saved_images,
                   imageFiles, pdfFile, output_path, msg, sent, events,
                   fetchLog>>

\* the script entry point, lines 131-138
ScriptEntry ==
    /\ pc = "start"
    /\ entry = "script"
    /\ IF ~Truthy(sender_email) \/ ~Truthy(sender_password)
          \/ ~Truthy(recipient_email)
       THEN Raise("ConfigurationError")
       ELSE pc' = "main" /\ error' = error
    /\ UNCHANGED <<cfg, page, response, img, gray, saved_images, imageFiles,
                   pdfFile, output_path, msg, sent, events, fetchLog>>

\* main calls the pipeline (line 127), or the pipeline is called directly;
\* lines 28-37 create the folders and the empty list
DownloadBegin ==
    /\ \/ pc = "main"
       \/ pc = "start" /\ entry \in {"main", "download"}
    /\ saved_images' = <<>>
    /\ page' = start_page
    /\ pc' = "loop"
    /\ UNCHANGED <<cfg, error, response, img, gray, imageFiles, pdfFile,
                   output_path, msg, sent, events, fetchLog>>

\* one iteration's requests.get, lines 39-41
Request ==
    /\ pc = "loop"
    /\ page < end_page
    /\ \E r \in [status_code : FailureStatuses, ok : {FALSE}, pixels : {<<>>}]
              \cup [status_code : {HTTP_OK}, ok : {FALSE}, pixels : {<<>>}]
              \cup [status_code : {HTTP_OK}, ok : {TRUE}, pixels : Images] :
          /\ response' = r
          /\ fetchLog' = Append(fetchLog,
                [page |-> page,
                 status_code |-> r.status_code,
                 decodable |-> r.ok,
                 rawUniform |-> r.ok /\ IsUniform(r.pixels),
                 filterUniform |->
                    r.ok /\ IsUniform(InvertImg(PointImg(ConvertL(r.pixels))))])
    /\ Log("http", page)
    /\ pc' = "response"
    /\ UNCHANGED <<cfg, error, page, img, gray, saved_images, imageFiles,
                   pdfFile, output_path, msg, sent>>

\* the loop's next value of page
NextPage(p) == p + 1

\* variant: a failed page is requested again
FailedStatus_Retry ==
    /\ pc = "response"
    /\ response.status_code # HTTP_OK
    /\ pc' = "loop"
    /\ UNCHANGED <<cfg, error, page, response, img, gray, saved_images,
                   imageFiles, pdfFile, output_path, msg, sent, events,
                   fetchLog>>

\* the else branch of line 43, lines 75-76
FailedStatus ==
    /\ pc = "response"
    /\ response.status_code # HTTP_OK
    /\ page' = NextPage(page)
    /\ pc' = "loop"
    /\ UNCHANGED <<cfg, error, response, img, gray, saved_images, imageFiles,
                   pdfFile, output_path, msg, sent, events, fetchLog>>

\* variant: malformed bytes are skipped like a failed fetch
Decode_SkipMalformed ==
    /\ pc = "response"
    /\ response.status_code = HTTP_OK
    /\ IF response.ok
       THEN /\ img' = ConvertL(response.pixels)
            /\ gray' = ConvertL(response.pixels)
            /\ pc' = "point"
            /\ page' = page
       ELSE /\ pc' = "loop"
            /\ page' = NextPage(page)
            /\ UNCHANGED <<img, gray>>
    /\ UNCHANGED <<cfg, error, response, saved_images, imageFiles, pdfFile,
                   output_path, msg, sent, events, fetchLog>>

\* Image.open and convert("L"), lines 43-46; malformed bytes raise
Decode ==
    /\ pc = "response"
    /\ response.status_code = HTTP_OK
    /\ IF response.ok
       THEN /\ img' = ConvertL(response.pixels)
            /\ gray' = ConvertL(response.pixels)
            /\ pc' = "point"
            /\ error' = error
       ELSE /\ Raise("DecodeOrRenderFailure")
            /\ UNCHANGED <<img, gray>>
    /\ UNCHANGED <<cfg, page, response, saved_images, imageFiles, pdfFile,
                   output_path, msg, sent, events, fetchLog>>

\* binarization, lines 47-49
PointStep ==
    /\ pc = "point"
    /\ img' = PointImg(img)
    /\ pc' = "invert"
    /\ UNCHANGED <<cfg, error, page, response, gray, saved_images,
                   imageFiles, pdfFile, output_path, msg, sent, events,
                   fetchLog>>

\* inversion, lines 50-51
InvertStep ==
    /\ pc = "invert"
    /\ img' = InvertImg(img)
    /\ pc' = "filter"
    /\ UNCHANGED <<cfg, error, page, response, gray, saved_images,
                   imageFiles, pdfFile, output_path, msg, sent, events,
                   fetchLog>>

\* the uniformity test and the rendering of a kept page, lines 52-74.
\* Rendering may raise before the file is written or while it is written
\* (leaving a partial file); the font fallback of lines 62-65 never raises.
FilterAndSave ==
    /\ pc = "filter"
    /\ IF IsUniform(img)
       THEN /\ page' = NextPage(page)
            /\ pc' = "loop"
            /\ UNCHANGED <<error, saved_images, imageFiles, events>>
       ELSE \E outcome \in {"saved", "raise_before_save", "raise_in_save"} :
              CASE outcome = "saved" ->
                     /\ imageFiles' = imageFiles \cup {ImgPath(page)}
                     /\ Log("png", page)
                     /\ saved_images' = AppendSaved(saved_images, ImgPath(page))
                     /\ page' = NextPage(page)
                     /\ pc' = "loop"
                     /\ error' = error
                [] outcome = "raise_before_save" ->
                     /\ Raise("DecodeOrRenderFailure")
                     /\ UNCHANGED <<page, saved_images, imageFiles, events>>
                [] outcome = "raise_in_save" ->
                     /\ imageFiles' = imageFiles \cup {ImgPath(page)}
                     /\ Raise("DecodeOrRenderFailure")
                     /\ UNCHANGED <<page, saved_images, events>>
    /\ img' = <<>>
    /\ gray' = <<>>
    /\ UNCHANGED <<cfg, response, pdfFile, output_path, msg, sent, fetchLog>>

\* variant: the document is written without waiting for the end of the range
Assemble_Early ==
    /\ pc = "loop"
    /\ IF HasSaved(saved_images)
       THEN /\ pdfFile' = [path |-> pdf_path,
                           pages |-> [i \in 1..Len(saved_images) |->
                                         PageOf(saved_images[i])]]
            /\ Log("pdf", 0)
            /\ output_path' = pdf_path
       ELSE /\ output_path' = NoPath
            /\ UNCHANGED <<pdfFile, events>>
    /\ pc' = "returned"
    /\ UNCHANGED <<cfg, error, page, response, img, gray, saved_images,
                   imageFiles, msg, sent, fetchLog>>

\* after the loop: the document is written, or not, lines 78-89
Assemble ==
    /\ pc = "loop"
    /\ page >= end_page
    /\ IF HasSaved(saved_images)
       THEN /\ pdfFile' = [path |-> pdf_path,
                           pages |-> [i \in 1..Len(saved_images) |->
                                         PageOf(saved_images[i])]]
            /\ Log("pdf", 0)
            /\ output_path' = pdf_path
       ELSE /\ output_path' = NoPath
            /\ UNCHANGED <<pdfFile, events>>
    /\ pc' = "returned"
    /\ UNCHANGED <<cfg, error, page, response, img, gray, saved_images,
                   imageFiles, msg, sent, fetchLog>>

\* variant: main calls the notifier whatever the pipeline returned
MainDispatch_Always ==
    /\ pc = "returned"
    /\ entry # "download"
    /\ pc' = "send"
    /\ Log("notify", 0)
    /\ UNCHANGED <<cfg, error, page, response, img, gray, saved_images,
                   imageFiles, pdfFile, output_path, msg, sent, fetchLog>>

\* main's conditional dispatch, lines 128-129
MainDispatch ==
    /\ pc = "returned"
    /\ entry # "download"
    /\ IF TruthyPath(output_path)
       THEN pc' = "send" /\ Log("notify", 0)
       ELSE pc' = "done" /\ events' = events
    /\ UNCHANGED <<cfg, error, page, response, img, gray, saved_images,
                   imageFiles, pdfFile, output_path, msg, sent, fetchLog>>

\* send_pdf_via_email up to the attachment, lines 108-119
SendPrepare ==
    /\ pc = "send"
    /\ IF ~Truthy(sender_email) \/ ~Truthy(sender_password)
       THEN Raise("ConfigurationError") /\ msg' = msg
       ELSE IF pdfFile.path # output_path
            THEN Raise("FileNotFound") /\ msg' = msg
            ELSE /\ msg' = [from |-> sender_email,
                            to |-> recipient_email,
                            filename |-> Basename(output_path),
                            data |-> pdfFile.pages]
                 /\ pc' = "smtp_connect"
                 /\ error' = error
    /\ UNCHANGED <<cfg, page, response, img, gray, saved_images, imageFiles,
                   pdfFile, output_path, sent, events, fetchLog>>

\* smtplib.SMTP_SSL("smtp.seznam.cz", 465), line 121
SmtpConnect ==
    /\ pc = "smtp_connect"
    /\ Log("smtp_connect", 0)
    /\ \E ok \in BOOLEAN :
          IF ok THEN pc' = "smtp_login" /\ error' = error
                ELSE Raise("TransmissionFailure")
    /\ UNCHANGED <<cfg, page, response, img, gray, saved_images, imageFiles,
                   pdfFile, output_path, msg, sent, fetchLog>>

\* smtp.login, line 122
SmtpLogin ==
    /\ pc = "smtp_login"
    /\ Log("smtp_login", 0)
    /\ \E ok \in BOOLEAN :
          IF ok THEN pc' = "smtp_send" /\ error' = error
                ELSE Raise("TransmissionFailure")
    /\ UNCHANGED <<cfg, page, response, img, gray, saved_images, imageFiles,
                   pdfFile, output_path, msg, sent, fetchLog>>

\* variant: a failed send opens a new session and tries again
SmtpSend_Retry ==
    /\ pc = "smtp_send"
    /\ Log("smtp_send", 0)
    /\ \E ok \in BOOLEAN :
          IF ok THEN /\ sent' = Append(sent, msg)
                     /\ pc' = "done"
                ELSE /\ pc' = "smtp_connect"
                     /\ sent' = sent
    /\ UNCHANGED <<cfg, error, page, response, img, gray, saved_images,
                   imageFiles, pdfFile, output_path, msg, fetchLog>>

\* smtp.send_message, lines 123-124
SmtpSend ==
    /\ pc = "smtp_send"
    /\ Log("smtp_send", 0)
    /\ \E ok \in BOOLEAN :
          IF ok THEN /\ sent' = Append(sent, msg)
                     /\ pc' = "done"
                     /\ error' = error
                ELSE /\ Raise("TransmissionFailure")
                     /\ sent' = sent
    /\ UNCHANGED <<cfg, page, response, img, gray, saved_images, imageFiles,
                   pdfFile, output_path, msg, fetchLog>>

Next ==
    \/ ScriptEntry
    \/ DownloadBegin
    \/ Request
    \/ FailedStatus
    \/ Decode
    \/ PointStep
    \/ InvertStep
    \/ FilterAndSave
    \/ Assemble
    \/ MainDispatch
    \/ SendPrepare
    \/ SmtpConnect
    \/ SmtpLogin
    \/ SmtpSend

Spec == Init /\ [][Next]_vars

---------------------------------------------------------------------------
(* The per-pixel transform on every luminance value: a one-pixel grayscale *)
(* image of luminance p, as it stands after convert("L").                  *)

InitTransform ==
    /\ entry = "download"
    /\ sender_email = NONE
    /\ sender_password = ""
    /\ recipient_email = NONE
    /\ start_page = DefaultStartPage
    /\ end_page = DefaultStartPage + 1
    /\ pc = "point"
    /\ error = "none"
    /\ page = start_page
    /\ \E p \in 0..255 :
          /\ img = <<p>>
          /\ gray = <<p>>
    /\ response = [status_code |-> HTTP_OK, ok |-> TRUE, pixels |-> <<Black>>]
    /\ saved_images = <<>>
    /\ imageFiles = {}
    /\ pdfFile = NoPdf
    /\ output_path = Unbound
    /\ msg = NoMsg
    /\ sent = <<>>
    /\ events = <<Ev("http", start_page)>>
    /\ fetchLog = <<>>

NextTransform == PointStep \/ InvertStep

SpecTransform == InitTransform /\ [][NextTransform]_vars

TypeOK ==
    /\ pc \in {"start", "main", "loop", "response", "point", "invert",
               "filter", "returned", "send", "smtp_connect", "smtp_login",
               "smtp_send", "done", "raised"}
    /\ error \in {"none", "ConfigurationError", "DecodeOrRenderFailure",
                  "TransmissionFailure", "FileNotFound"}
    /\ (pc = "raised") <=> (error # "none")

---------------------------------------------------------------------------
(* Vocabulary of the properties *)

\* the pipeline has returned to its caller
Returned == output_path # Unbound

\* a logged fetch passed the HTTP-success check and the uniformity filter
Passed(e) == e.status_code = HTTP_OK /\ e.decodable /\ ~e.filterUniform

\* the loop iteration of a logged fetch has completed
Processed(e) == e.page < page

KeptLog == SelectSeq(fetchLog, LAMBDA e : Processed(e) /\ Passed(e))

SavedPages == [i \in 1..Len(saved_images) |-> PageOf(saved_images[i])]

NoneQualified == \A i \in 1..Len(fetchLog) : ~Passed(fetchLog[i])

SmtpEvents == {"smtp_connect", "smtp_login", "smtp_send"}
NoSmtp == \A i \in 1..Len(events) : events[i].ev \notin SmtpEvents

SenderMissing == ~Truthy(sender_email) \/ ~Truthy(sender_password)

---------------------------------------------------------------------------
(* Properties *)

\* C1: at every point of a run the list of saved pages, and the document
\* once written, holds exactly the pages whose iteration has completed and
\* that passed the HTTP-success check and the uniformity filter, in strictly
\* ascending page-number order, none twice.
C1_SavedExactlyPassedAscending ==
    /\ Len(saved_images) = Len(KeptLog)
    /\ \A i \in 1..Len(saved_images) :
          saved_images[i] = ImgPath(KeptLog[i].page)
    /\ \A i, j \in 1..Len(saved_images) :
          i < j => PageOf(saved_images[i]) < PageOf(saved_images[j])
    /\ pdfFile # NoPdf => pdfFile.pages = SavedPages

C1_Witness ==
    /\ pc = "returned"
    /\ Len(fetchLog) = 3
    /\ Len(saved_images) = 2
    /\ ~Passed(fetchLog[2])
    /\ pdfFile # NoPdf

\* C2: a successfully fetched and decoded page is discarded if and only if
\* its decoded image is uniform.
C2_DiscardedIffDecodedUniform ==
    \A i \in 1..Len(fetchLog) :
       LET e == fetchLog[i] IN
       (Processed(e) /\ e.status_code = HTTP_OK /\ e.decodable) =>
          ((ImgPath(e.page) \notin {saved_images[k] : k \in 1..Len(saved_images)})
             <=> e.rawUniform)

\* C3: when the pipeline returns, it returns None and no document file
\* exists if no page of the range qualified (the empty range included);
\* otherwise it returns the path of the document file, which exists.
C3_EmptyResult ==
    pc = "returned" =>
       IF NoneQualified
       THEN /\ output_path = NoPath
            /\ pdfFile = NoPdf
            /\ Count("pdf") = 0
       ELSE /\ output_path = pdf_path
            /\ pdfFile.path = output_path
            /\ pdfFile.pages # <<>>
            /\ Count("pdf") = 1

C3_Witness ==
    /\ pc = "returned"
    /\ output_path = NoPath
    /\ \E i \in 1..Len(fetchLog) : fetchLog[i].status_code # HTTP_OK
    /\ \E i \in 1..Len(fetchLog) : fetchLog[i].filterUniform

\* C4: in a run through main in which no page passed filtering, once the
\* pipeline has returned the run is finished without error, the notifier
\* was not invoked and no SMTP step was taken; the notifier is invoked only
\* when a document was produced.
C4_NoDocumentNoNotifier ==
    entry # "download" =>
       /\ (Returned /\ NoneQualified /\ pc # "returned") =>
             /\ pc = "done"
             /\ error = "none"
             /\ Count("notify") = 0
             /\ NoSmtp
             /\ sent = <<>>
       /\ (Count("notify") > 0 \/ ~NoSmtp) =>
             /\ ~NoneQualified
             /\ pdfFile.path = pdf_path
             /\ output_path = pdf_path
             /\ Count("pdf") = 1

C4_Witness ==
    /\ entry = "main"
    /\ pc = "done"
    /\ NoneQualified
    /\ Len(fetchLog) = DefaultSpan
    /\ Count("notify") = 0

\* C5 as stated: a run that ends in the configuration error issued no HTTP
\* request and opened no SMTP session, whichever way it was entered.
C5_ConfigErrorBeforeAnyNetwork ==
    error = "ConfigurationError" => Count("http") = 0 /\ NoSmtp

\* C5 as amended: through the script entry point a missing sender address or
\* credential fails the run before any external effect; through main it is
\* raised by the notifier, after every page was requested and the document
\* written, before any SMTP step, and only when a document was produced.
C5_ConfigErrorAmended ==
    /\ error = "ConfigurationError" => NoSmtp /\ sent = <<>>
    /\ (entry = "script" /\ error = "ConfigurationError") => events = <<>>
    /\ (entry = "script" /\ SenderMissing /\ pc # "start") =>
          error = "ConfigurationError"
    /\ (entry = "main" /\ error = "ConfigurationError") =>
          /\ SenderMissing
          /\ HttpPages = Range(start_page, end_page)
          /\ pdfFile.path = pdf_path
          /\ Count("notify") = 1
    /\ (entry = "main" /\ SenderMissing /\ pc = "done") => output_path = NoPath

C5_Witness ==
    /\ entry = "main"
    /\ error = "ConfigurationError"
    /\ Count("http") = DefaultSpan

\* C6: a non-200 page is left out of the list and of the document and the
\* run goes on with the next page; requests are issued for consecutive page
\* numbers from start_page upwards, none twice, and a run whose loop
\* completed requested every page of the range exactly once.
C6_NonSuccessSkippedNoRetry ==
    /\ HttpPages = Range(start_page, start_page + Len(HttpPages))
    /\ Len(fetchLog) = Len(HttpPages)
    /\ \A i \in 1..Len(fetchLog) :
          fetchLog[i].status_code # HTTP_OK =>
             /\ ImgPath(fetchLog[i].page) \notin
                   {saved_images[k] : k \in 1..Len(saved_images)}
             /\ ImgPath(fetchLog[i].page) \notin imageFiles
             /\ fetchLog[i].page \notin
                   {pdfFile.pages[k] : k \in 1..Len(pdfFile.pages)}
             /\ (i = Len(fetchLog) /\ pc \notin {"response", "loop"}) =>
                   (Returned /\ error # "DecodeOrRenderFailure")
    /\ Returned => HttpPages = Range(start_page, end_page)

C6_Witness ==
    /\ Returned
    /\ Len(fetchLog) = 3
    /\ fetchLog[1].status_code # HTTP_OK
    /\ Passed(fetchLog[2])
    /\ fetchLog[3].status_code # HTTP_OK

\* C7: a run that ended in a transmission failure has its document on
\* disk, written once and identical to what was assembled and attached,
\* made one connection attempt, at most one login and one send, and sent
\* nothing.
C7_TransmissionFailureKeepsDocument ==
    error = "TransmissionFailure" =>
       /\ pc = "raised"
       /\ Count("pdf") = 1
       /\ pdfFile.path = pdf_path
       /\ pdfFile.path = output_path
       /\ pdfFile.pages = SavedPages
       /\ pdfFile.pages = msg.data
       /\ pdfFile.pages # <<>>
       /\ Count("smtp_connect") = 1
       /\ Count("smtp_login") <= 1
       /\ Count("smtp_send") <= 1
       /\ sent = <<>>

C7_Witness ==
    /\ error = "TransmissionFailure"
    /\ Count("smtp_send") = 1

\* C8: for every luminance p in 0..255 binarization gives 255 exactly when
\* p > 128 and 0 otherwise, and after inversion every pixel is 0 or 255 and
\* is 0 exactly when p > 128.
C8_BinarizeThenInvert ==
    /\ pc = "invert" =>
          \A i \in 1..Len(img) : img[i] = (IF gray[i] > 128 THEN 255 ELSE 0)
    /\ pc = "filter" =>
          \A i \in 1..Len(img) :
             /\ img[i] \in {0, 255}
             /\ (img[i] = 0) <=> (gray[i] > 128)

C8_Witness ==
    /\ pc = "filter"
    /\ gray = <<128>>
    /\ img = <<255>>

\* C9: a decode or render failure on a page fetched with status 200 ends
\* the run: the failing page is the last one requested, no document was
\* written, the pipeline did not return, the notifier and SMTP were not
\* used, and the image files of the pages kept before it are on disk.
C9_DecodeFailureAborts ==
    /\ error = "DecodeOrRenderFailure" =>
          /\ pc = "raised"
          /\ fetchLog[Len(fetchLog)].status_code = HTTP_OK
          /\ fetchLog[Len(fetchLog)].page = page
          /\ HttpPages = Range(start_page, page + 1)
          /\ pdfFile = NoPdf
          /\ Count("pdf") = 0
          /\ ~Returned
          /\ Count("notify") = 0
          /\ NoSmtp
          /\ sent = <<>>
          /\ \A i \in 1..Len(saved_images) : saved_images[i] \in imageFiles
    /\ \A i \in 1..Len(fetchLog) :
          (fetchLog[i].status_code = HTTP_OK /\ ~fetchLog[i].decodable) =>
             /\ i = Len(fetchLog)
             /\ pc = "response" \/ error = "DecodeOrRenderFailure"

C9_Witness ==
    /\ entry = "main"
    /\ error = "DecodeOrRenderFailure"
    /\ saved_images # <<>>
    /\ ~fetchLog[Len(fetchLog)].decodable
    /\ page < end_page - 1

\* C10: per run at most one connection, one login, one send and one
\* document write; every SMTP step comes after the document write, which
\* comes after the request of every page of the range; no request follows
\* the document write; what was sent is the returned document.
C10_EventOrder ==
    /\ Count("pdf") <= 1
    /\ Count("smtp_connect") <= 1
    /\ Count("smtp_login") <= 1
    /\ Count("smtp_send") <= 1
    /\ Len(sent) <= 1
    /\ \A i \in Positions("pdf") : \A j \in Positions("http") : j < i
    /\ Count("pdf") = 1 => HttpPages = Range(start_page, end_page)
    /\ \A i \in 1..Len(events) :
          events[i].ev \in SmtpEvents =>
             /\ \E k \in Positions("pdf") : k < i
             /\ \A j \in Positions("http") : j < i
    /\ \A i \in Positions("smtp_login") :
          \E k \in Positions("smtp_connect") : k < i
    /\ \A i \in Positions("smtp_send") :
          \E k \in Positions("smtp_login") : k < i
    /\ \A i \in 1..Len(sent) :
          /\ sent[i].filename = pdf_filename
          /\ pdfFile.path = output_path
          /\ sent[i].data = pdfFile.pages
          /\ sent[i].data = SavedPages
          /\ sent[i].to = recipient_email

C10_Witness ==
    /\ pc = "done"
    /\ Len(sent) = 1
    /\ Len(sent[1].data) = 2
    /\ Count("http") = DefaultSpan
====
